---------------------------- MODULE Spec2Model ----------------------------
(***************************************************************************)
(* A model of the Go package bytesizer (bytesizer.go): the ByteSize type,  *)
(* its unit ladder, the integer conversions, the formatters String and     *)
(* Format with formatString / decimalPlaces, and the parser Parse.         *)
(*                                                                         *)
(* ByteSize is a 64-bit signed integer and the formatters and the parser   *)
(* compute in float64.  Neither fits the integers of the model checker, so *)
(* numbers are kept as magnitudes in base 1024 (one limb per step of the   *)
(* unit ladder, least significant limb first, no leading zero limb) with a *)
(* separate sign.  A float64 is a sign, such a magnitude m and a count fl  *)
(* of fractional limbs: its value is m / 1024^fl, and every float64 result *)
(* is rounded to 53 significant bits, ties to even, as the hardware does.  *)
(* Strings are sequences of one-character strings.                         *)
(***************************************************************************)
EXTENDS Integers, Sequences, FiniteSets

(***************************************************************************)
(* Magnitude arithmetic.                                                   *)
(***************************************************************************)

\* The ladder's step: each unit is 1 << 10 times the previous one.
LimbBits == 10

\* F(x) with x evaluated first: the model checker evaluates an operator's
\* argument where it is used, inside the caller's recursion; a bound
\* variable holds a value.
With(x, F(_)) == CHOOSE r \in { F(y) : y \in { x } } : TRUE

RECURSIVE Pow2(_)
Pow2(n) == IF n = 0 THEN 1 ELSE 2 * Pow2(n - 1)

Base == Pow2(LimbBits)

\* The significand of a float64 holds 53 bits.
MantBits == 53

RECURSIVE Norm(_)
Norm(a) == IF a = << >> THEN << >>
           ELSE IF a[Len(a)] = 0 THEN Norm(SubSeq(a, 1, Len(a) - 1))
           ELSE a

RECURSIVE Nat2M(_)
Nat2M(n) == IF n = 0 THEN << >> ELSE << n % Base >> \o Nat2M(n \div Base)

Lo(a) == IF a = << >> THEN 0 ELSE a[1]
Hi(a) == IF a = << >> THEN << >> ELSE Tail(a)

RECURSIVE AddC(_, _, _)
AddC(a, b, c) ==
    IF a = << >> /\ b = << >> THEN (IF c = 0 THEN << >> ELSE << c >>)
    ELSE LET t == Lo(a) + Lo(b) + c
         IN  << t % Base >> \o AddC(Hi(a), Hi(b), t \div Base)

AddM(a, b) == AddC(a, b, 0)

\* a - b for a >= b.
RECURSIVE SubB(_, _, _)
SubB(a, b, br) ==
    IF a = << >> THEN << >>
    ELSE LET t == Lo(a) - Lo(b) - br
         IN  << IF t < 0 THEN t + Base ELSE t >>
             \o SubB(Hi(a), Hi(b), IF t < 0 THEN 1 ELSE 0)

SubM(a, b) == Norm(SubB(a, b, 0))

RECURSIVE CmpAt(_, _, _)
CmpAt(a, b, i) ==
    IF i = 0 THEN 0
    ELSE IF a[i] > b[i] THEN 1
    ELSE IF a[i] < b[i] THEN -1
    ELSE CmpAt(a, b, i - 1)

\* -1, 0 or 1 as a < b, a = b or a > b.
CmpM(a, b) ==
    IF Len(a) > Len(b) THEN 1
    ELSE IF Len(a) < Len(b) THEN -1
    ELSE CmpAt(a, b, Len(a))

RECURSIVE MulC(_, _, _)
MulC(a, k, c) ==
    IF a = << >> THEN Nat2M(c)
    ELSE LET t == a[1] * k + c
         IN  << t % Base >> \o MulC(Tail(a), k, t \div Base)

\* a * k for a small k.
MulS(a, k) == With(MulC(a, k, 0), LAMBDA p : Norm(p))

RECURSIVE Pow10(_)
Pow10(n) == IF n = 0 THEN 1 ELSE 10 * Pow10(n - 1)

\* a * 10^e, six digits at a step.
RECURSIVE MulPow10(_, _)
MulPow10(a, e) ==
    IF e = 0 THEN a
    ELSE LET c == IF e > 6 THEN 6 ELSE e
         IN  With(MulS(a, Pow10(c)), LAMBDA b : MulPow10(b, e - c))

\* Quotient and remainder of a by a small k.
RECURSIVE DivRec(_, _)
DivRec(a, k) ==
    IF a = << >> THEN [q |-> << >>, r |-> 0]
    ELSE LET up  == DivRec(Tail(a), k)
             cur == up.r * Base + a[1]
         IN  [q |-> << cur \div k >> \o up.q, r |-> cur % k]

DivS(a, k) == With(DivRec(a, k), LAMBDA d : [q |-> Norm(d.q), r |-> d.r])

\* Quotient of a by 10^e, and whether anything was left over; six digits
\* at a step.
RECURSIVE DivPow10(_, _)
DivPow10(a, e) ==
    IF e = 0 THEN [q |-> a, rest |-> FALSE]
    ELSE LET c == IF e > 6 THEN 6 ELSE e
         IN  With(DivS(a, Pow10(c)), LAMBDA d :
               With(DivPow10(d.q, e - c), LAMBDA dd :
                   [q |-> dd.q, rest |-> dd.rest \/ d.r # 0]))

Zeros(k) == [i \in 1..k |-> 0]

\* a * 1024^k and a \div 1024^k.
ShiftL(a, k) == IF a = << >> THEN << >> ELSE Zeros(k) \o a
ShiftR(a, k) == IF k >= Len(a) THEN << >> ELSE SubSeq(a, k + 1, Len(a))

\* a mod 1024^k.
LowM(a, k) == Norm(SubSeq(a, 1, IF k < Len(a) THEN k ELSE Len(a)))

RECURSIVE BitsOf(_)
BitsOf(n) == IF n = 0 THEN 0 ELSE 1 + BitsOf(n \div 2)

BitLen(a) == IF a = << >> THEN 0
             ELSE LimbBits * (Len(a) - 1) + BitsOf(a[Len(a)])

IsOddM(a) == a # << >> /\ a[1] % 2 = 1

(***************************************************************************)
(* Rounding to a float64: the magnitude a, with something more below its   *)
(* last bit when sticky, rounded to MantBits significant bits, ties to     *)
(* even.  A caller that passes sticky passes at least one bit more than    *)
(* MantBits.                                                               *)
(***************************************************************************)
Round53(x, sticky) == With(x, LAMBDA a :
    LET s == BitLen(a) - MantBits
    IN  IF s <= 0 THEN a
        ELSE
          LET q     == s \div LimbBits
              r     == s % LimbBits
              limb  == a[q + 1]
              low   == limb % Pow2(r)
              below(n) == sticky \/ \E i \in 1..n : a[i] # 0
              \* 1: above the half, -1: below it, 0: exactly the half
              side  == IF r > 0
                       THEN IF low > Pow2(r - 1) THEN 1
                            ELSE IF low < Pow2(r - 1) THEN -1
                            ELSE IF below(q) THEN 1 ELSE 0
                       ELSE IF a[q] > Base \div 2 THEN 1
                            ELSE IF a[q] < Base \div 2 THEN -1
                            ELSE IF below(q - 1) THEN 1 ELSE 0
              odd   == (limb \div Pow2(r)) % 2 = 1
              up    == side = 1 \/ (side = 0 /\ odd)
              kept  == [i \in 1..Len(a) |->
                          IF i <= q THEN 0
                          ELSE IF i = q + 1 THEN limb - low
                          ELSE a[i]]
          IN  IF up THEN AddM(Norm(kept), ShiftL(Nat2M(Pow2(r)), q))
              ELSE Norm(kept))


(***************************************************************************)
(* ByteSize and the unit ladder.                                           *)
(***************************************************************************)

\* type ByteSize int: a sign and a magnitude; zero is not negative.
ByteSize(neg, mag) == [neg |-> neg /\ mag # << >>, mag |-> mag]

\* 1 << (10 * iota)
Ladder(iota) == ByteSize(FALSE, ShiftL(<< 1 >>, iota))

Byte == Ladder(0)
KB   == Ladder(1)
MB   == Ladder(2)
GB   == Ladder(3)
TB   == Ladder(4)
PB   == Ladder(5)

units == << [size |-> Byte, unitName |-> << "B" >>],
            [size |-> KB,   unitName |-> << "K", "B" >>],
            [size |-> MB,   unitName |-> << "M", "B" >>],
            [size |-> GB,   unitName |-> << "G", "B" >>],
            [size |-> TB,   unitName |-> << "T", "B" >>],
            [size |-> PB,   unitName |-> << "P", "B" >>] >>

\* a > b on signed integers: the comparison that leaves the threshold out.
GT(a, b) ==
    IF a.neg # b.neg THEN b.neg
    ELSE IF a.neg THEN CmpM(a.mag, b.mag) < 0
    ELSE CmpM(a.mag, b.mag) > 0

\* a >= b on signed integers.
GE(a, b) ==
    IF a.neg # b.neg THEN b.neg
    ELSE IF a.neg THEN CmpM(a.mag, b.mag) <= 0
    ELSE CmpM(a.mag, b.mag) >= 0

\* Go's integer a / b, truncated toward zero, for a divisor b of the ladder
\* (a power of 1024: the division drops b's count of low limbs).
Quo(a, b) == ByteSize(a.neg, ShiftR(a.mag, Len(b.mag) - 1))

(***************************************************************************)
(* float64 values: [neg, m, fl] stands for (-1)^neg * m / 1024^fl.         *)
(***************************************************************************)

\* float64(fs): the nearest float64 of an integer.
float64(fs) == [neg |-> fs.neg, m |-> Round53(fs.mag, FALSE), fl |-> 0]

\* a / b in float64 for b the float64 of a ladder unit: a power of two, so
\* the quotient is exact.
FQuoUnit(a, b) == [neg |-> a.neg, m |-> a.m, fl |-> a.fl + (Len(b.m) - 1)]

\* The product with the unit left out.
FMulUnitDropped(a, b) == a

\* a * b in float64 for b the float64 of a ladder unit: exact.
FMulUnit(a, b) == [neg |-> a.neg, m |-> ShiftL(a.m, Len(b.m) - 1), fl |-> a.fl]

\* f * 10^d in float64 (10^d is exact in float64 for the d used here).
FMulPow10(x, d) == With(x, LAMBDA f :
    [neg |-> f.neg, m |-> Round53(MulPow10(f.m, d), FALSE), fl |-> f.fl])

\* The limbs to put below the point of a before dividing it by 10^d, so
\* that the quotient has a bit beyond MantBits for the rounding (10^d is
\* below 2^(4d)).
Guard(a, d) ==
    LET need == MantBits + 2 + 4 * d - BitLen(a)
    IN  IF need <= 0 THEN 0 ELSE (need + LimbBits - 1) \div LimbBits

\* a / 10^d in float64, correctly rounded.
FQuoPow10(x, d) == With(x, LAMBDA a :
    With(DivPow10(ShiftL(a.m, Guard(a.m, d)), d), LAMBDA dd :
        [neg |-> a.neg, m |-> Round53(dd.q, dd.rest),
         fl |-> a.fl + Guard(a.m, d)]))

IntPart(f)  == ShiftR(f.m, f.fl)
FracPart(f) == LowM(f.m, f.fl)
One(fl)     == ShiftL(<< 1 >>, fl)

\* math.Trunc: the integer part, where math.Round was meant.
MathTrunc(x) == [neg |-> x.neg, m |-> IntPart(x), fl |-> 0]

\* math.Round: to the nearest integer, halves away from zero; the sign is
\* kept (a value that rounds to zero from below is -0).
MathRound(x) == With(x, LAMBDA f :
    LET up == f.fl > 0 /\ CmpM(MulS(FracPart(f), 2), One(f.fl)) >= 0
    IN  [neg |-> f.neg,
         m   |-> IF up THEN AddM(IntPart(f), << 1 >>) ELSE IntPart(f),
         fl  |-> 0])

\* A conversion that rounds to the nearest integer instead.
RoundNearest(f) == ByteSize(f.neg, MathRound(f).m)

\* ByteSize(f), int(f): the conversion of a float64 to the integer type
\* truncates toward zero.
Trunc(f) == ByteSize(f.neg, IntPart(f))

(***************************************************************************)
(* Decimal text.                                                           *)
(***************************************************************************)
Digits == << "0", "1", "2", "3", "4", "5", "6", "7", "8", "9" >>

IsDigit(c) == \E i \in 1..Len(Digits) : Digits[i] = c
DigitVal(c) == (CHOOSE i \in 1..Len(Digits) : Digits[i] = c) - 1

PadZeros(ds, n) ==
    IF Len(ds) >= n THEN ds ELSE [i \in 1..(n - Len(ds)) |-> "0"] \o ds

\* The decimal digits of a small number, and back.
RECURSIVE NatToDec(_)
NatToDec(n) ==
    IF n = 0 THEN << >> ELSE NatToDec(n \div 10) \o << Digits[(n % 10) + 1] >>

RECURSIVE DecToNat(_)
DecToNat(ds) ==
    IF ds = << >> THEN 0
    ELSE 10 * DecToNat(SubSeq(ds, 1, Len(ds) - 1)) + DigitVal(ds[Len(ds)])

\* The decimal digits of a magnitude (none for zero), six at a step.
RECURSIVE ToDec(_)
ToDec(a) ==
    IF a = << >> THEN << >>
    ELSE With(DivS(a, Pow10(6)), LAMBDA d :
           IF d.q = << >> THEN NatToDec(d.r)
           ELSE ToDec(d.q) \o PadZeros(NatToDec(d.r), 6))

\* The magnitude a string of digits stands for, six at a step.
RECURSIVE FromDec(_)
FromDec(ds) ==
    IF Len(ds) <= 6 THEN Nat2M(DecToNat(ds))
    ELSE With(FromDec(SubSeq(ds, 1, Len(ds) - 6)), LAMBDA p :
           AddM(MulS(p, Pow10(6)),
                Nat2M(DecToNat(SubSeq(ds, Len(ds) - 5, Len(ds))))))

\* fmt.Sprintf("%.<d>f", n): the exact value of the float64 n rounded to d
\* decimal places (ties to even), d digits after the point, no point when
\* d = 0, a minus sign when n's sign bit is set.
SprintfF(d, x) == With(x, LAMBDA n :
    With(MulPow10(n.m, d), LAMBDA scaled :
      LET ip == ShiftR(scaled, n.fl)
          c  == CmpM(MulS(LowM(scaled, n.fl), 2), One(n.fl))
          up == n.fl > 0 /\ (c = 1 \/ (c = 0 /\ IsOddM(ip)))
      IN  With(PadZeros(ToDec(IF up THEN AddM(ip, << 1 >>) ELSE ip), d + 1),
            LAMBDA ds :
              (IF n.neg THEN << "-" >> ELSE << >>)
              \o SubSeq(ds, 1, Len(ds) - d)
              \o (IF d > 0
                  THEN << "." >> \o SubSeq(ds, Len(ds) - d + 1, Len(ds))
                  ELSE << >>))))

(***************************************************************************)
(* formatString and decimalPlaces.                                         *)
(***************************************************************************)

\* const epsilon = 1e-10, as the power of ten it is.  The float64 nearest
\* to 1e-10 and 1e-10 itself separate the same multiples of 1024^-5, the
\* finest quotient Format or String can pass.
epsilon == 10

\* math.Abs(f - math.Floor(f)) > epsilon
FracAboveEpsilon(f) ==
    With(FracPart(f), LAMBDA fr :
      With(IF f.neg /\ fr # << >> THEN SubM(One(f.fl), fr) ELSE fr, LAMBDA g :
        CmpM(MulPow10(g, epsilon), One(f.fl)) = 1))

RECURSIVE decimalPlacesLoop(_, _)
decimalPlacesLoop(f, n) ==
    IF FracAboveEpsilon(f)
    THEN With(FMulPow10(f, 1), LAMBDA f10 : decimalPlacesLoop(f10, n + 1))
    ELSE n

\* A count that never enters the loop.
decimalPlacesNone(x) == 0

decimalPlaces(x) == With(x, LAMBDA f : decimalPlacesLoop(f, 0))

\* formatString(v, unit, maxDecimalCount) with the optional count given.
formatString(x, unit, maxDecimalCount) == With(x, LAMBDA v :
    With(decimalPlaces(v), LAMBDA places :
      LET decimals == IF maxDecimalCount >= 0 /\ places > maxDecimalCount
                      THEN maxDecimalCount ELSE places
          \* multiper := math.Pow(10, decimals); n := Round(v*multiper)/multiper
          n == FQuoPow10(MathRound(FMulPow10(v, decimals)), decimals)
      IN  SprintfF(decimals, n) \o unit))

ByteFloat(fs) == float64(fs)
KBFloat(fs)   == FQuoUnit(float64(fs), float64(KB))
MBFloat(fs)   == FQuoUnit(float64(fs), float64(MB))
GBFloat(fs)   == FQuoUnit(float64(fs), float64(GB))
TBFloat(fs)   == FQuoUnit(float64(fs), float64(TB))
PBFloat(fs)   == FQuoUnit(float64(fs), float64(PB))

String(fs) ==
    IF GE(fs, PB) THEN formatString(PBFloat(fs), << "P", "B" >>, 2)
    ELSE IF GE(fs, TB) THEN formatString(TBFloat(fs), << "T", "B" >>, 2)
    ELSE IF GE(fs, GB) THEN formatString(GBFloat(fs), << "G", "B" >>, 2)
    ELSE IF GE(fs, MB) THEN formatString(MBFloat(fs), << "M", "B" >>, 2)
    ELSE IF GE(fs, KB) THEN formatString(KBFloat(fs), << "K", "B" >>, 2)
    ELSE formatString(ByteFloat(fs), << "B" >>, 2)

\* A Format that prints bytes for a unit it does not know.
FormatByte(fs, bu) ==
    IF \E i \in 1..Len(units) : units[i].size = bu
    THEN LET u == units[CHOOSE i \in 1..Len(units) : units[i].size = bu]
         IN  formatString(FQuoUnit(float64(fs), float64(bu)), u.unitName, 2)
    ELSE formatString(float64(fs), << "B" >>, 2)

\* The quotient float64(fs) / float64(bu) is computed before the loop and
\* read only for a unit of the table; for any other bu (zero included: a
\* float64 division by zero yields an infinity or a NaN and does not panic)
\* it is dropped.
Format(fs, bu) ==
    IF \E i \in 1..Len(units) : units[i].size = bu
    THEN LET u == units[CHOOSE i \in 1..Len(units) : units[i].size = bu]
         IN  formatString(FQuoUnit(float64(fs), float64(bu)), u.unitName, 2)
    ELSE String(fs)

ByteInt(fs) == fs
KBInt(fs)   == Quo(fs, KB)
MBInt(fs)   == Quo(fs, MB)
GBInt(fs)   == Quo(fs, GB)
TBInt(fs)   == Quo(fs, TB)
PBInt(fs)   == Quo(fs, TB)

(***************************************************************************)
(* Parse.                                                                  *)
(***************************************************************************)
LowerCase == << "a", "b", "c", "d", "e", "f", "g", "h", "i", "j", "k", "l", "m",
                "n", "o", "p", "q", "r", "s", "t", "u", "v", "w", "x", "y", "z" >>
UpperCase == << "A", "B", "C", "D", "E", "F", "G", "H", "I", "J", "K", "L", "M",
                "N", "O", "P", "Q", "R", "S", "T", "U", "V", "W", "X", "Y", "Z" >>

\* strings.ToUpper
ToUpper(str) ==
    [i \in 1..Len(str) |->
        IF \E j \in 1..Len(LowerCase) : LowerCase[j] = str[i]
        THEN UpperCase[CHOOSE j \in 1..Len(LowerCase) : LowerCase[j] = str[i]]
        ELSE str[i]]

\* The errors Parse returns.
NoError     == << "nil" >>
EmptyError  == << "empty size string" >>
SyntaxError == << "strconv.ParseFloat: invalid syntax" >>
UnitError(unitName) == << "invalid size unit: " >> \o unitName

\* 2^n as a magnitude.
Pow2M(n) == ShiftL(<< Pow2(n % LimbBits) >>, n \div LimbBits)

\* int is the 64-bit integer: 63 bits below the sign.
IntBits == 63
MaxInt == ByteSize(FALSE, SubM(Pow2M(IntBits), << 1 >>))
MinInt == ByteSize(TRUE, Pow2M(IntBits))

InIntRange(f) ==
    LET c == CmpM(IntPart(f), Pow2M(IntBits))
    IN  c = -1 \/ (c = 0 /\ f.neg)

\* ByteSize(f) for a float64 f: truncation toward zero when the integer
\* part fits; otherwise the result is implementation-dependent: the most
\* negative integer (amd64) or the saturated one (arm64).
ToByteSize(f) ==
    IF InIntRange(f) THEN { Trunc(f) } ELSE { MinInt, MaxInt }

(***************************************************************************)
(* strconv.ParseFloat(str, 64) on decimal numerals: an optional sign, then *)
(* digits with at most one point and at least one digit, the whole string  *)
(* read.  The value is the float64 nearest to the numeral.  The exponent,  *)
(* hexadecimal, underscore, infinity and NaN forms are not read here: the  *)
(* strings of this model hold their letters only where a numeral has       *)
(* already failed.                                                         *)
(***************************************************************************)
ParseFloat(str) ==
    LET signed == str # << >> /\ str[1] \in { "+", "-" }
        body   == IF signed THEN Tail(str) ELSE str
        dots   == { i \in 1..Len(body) : body[i] = "." }
        digs   == { i \in 1..Len(body) : IsDigit(body[i]) }
        ok     == /\ digs # { }
                  /\ Cardinality(dots) <= 1
                  /\ Cardinality(dots) + Cardinality(digs) = Len(body)
        e      == IF dots = { } THEN 0
                  ELSE Len(body) - (CHOOSE i \in dots : TRUE)
        mant   == FromDec(SelectSeq(body, IsDigit))
    IN  IF ~ok THEN [err |-> TRUE, value |-> [neg |-> FALSE, m |-> << >>, fl |-> 0]]
        ELSE [err   |-> FALSE,
              value |-> FQuoPow10([neg |-> signed /\ str[1] = "-",
                                   m |-> mant, fl |-> 0], e)]

\* Parse(s): the set of results (val, err) a build can return; one result
\* except where the float64 product does not fit the integer type.
Parse(s) ==
    IF Len(s) = 0 THEN { [val |-> ByteSize(FALSE, << >>), err |-> EmptyError] }
    ELSE
      LET n        == Len(s)
          two      == n > 2 /\ s[n - 1] \in { "K", "M", "G", "T", "P" }
          unitName == IF two THEN SubSeq(s, n - 1, n) ELSE SubSeq(s, n, n)
          valueStr == IF two THEN SubSeq(s, 1, n - 2) ELSE SubSeq(s, 1, n - 1)
          exists   == \E i \in 1..Len(units) :
                          units[i].unitName = ToUpper(unitName)
          unit     == units[CHOOSE i \in 1..Len(units) :
                                units[i].unitName = ToUpper(unitName)].size
      IN  IF ~exists
          THEN { [val |-> ByteSize(FALSE, << >>), err |-> UnitError(unitName)] }
          ELSE With(ParseFloat(valueStr), LAMBDA pf :
                 IF pf.err
                 THEN { [val |-> ByteSize(FALSE, << >>), err |-> SyntaxError] }
                 ELSE { [val |-> v, err |-> NoError] :
                        v \in ToByteSize(FMulUnit(pf.value, float64(unit))) })

(***************************************************************************)
(* The calls.  The package keeps no state of its own: the state is the     *)
(* caller's, who holds the arguments of a call and what it returned.       *)
(***************************************************************************)

\* The multipliers 0..MaxN of every unit are tried.
MaxN == 12

Zero == ByteSize(FALSE, << >>)

\* n * 1024^k, and a count moved by a small d.
Count(n, k) == ByteSize(FALSE, ShiftL(Nat2M(n), k))
Plus(a, d)  == ByteSize(FALSE, AddM(a.mag, Nat2M(d)))
Less(a, d)  == ByteSize(FALSE, SubM(a.mag, Nat2M(d)))
Negate(a)   == ByteSize(~a.neg, a.mag)

\* Multipliers beside 0..MaxN: halves, the last below 1024, quotients with
\* one, two and three decimal places.
Marks == { 100, 512, 1000, 1023, 1025, 1536, 3200 }

Whole == { Count(n, k) : n \in (0..MaxN) \cup Marks, k \in 0..(Len(units) - 1) }

\* One byte below and above each threshold, 1024 PB included.
Edges == { Less(Ladder(k), 1) : k \in 1..Len(units) }
         \cup { Plus(Ladder(k), 1) : k \in 1..Len(units) }

\* Counts whose quotient is within 1e-10 of a whole number or just beyond
\* it, and one whose quotient times 100 is not a float64.
Fine == { Plus(TB, 109), Plus(TB, 110), Plus(PB, 112589), Plus(PB, 112590),
          Plus(Count(6, 5), 87) }

\* Counts at the end of the float64's exact integers and of the int.
Wide == { Less(Count(8, 5), 1), Count(8, 5), Plus(Count(8, 5), 1),
          Plus(Count(8, 5), 3), Ladder(Len(units)), Count(4, Len(units)),
          MaxInt }

Negatives == { Negate(Count(n, k)) : n \in { 1, 2, 1536 },
                                     k \in 0..(Len(units) - 1) }
             \cup { Negate(Plus(TB, 1)), MinInt }

Counts == Whole \cup Edges \cup Fine \cup Wide \cup Negatives

\* The unit arguments of Format: the ladder, and values that are no unit.
UnitArgs == { units[i].size : i \in 1..Len(units) }
            \cup { Zero, Count(3, 0), Count(1000, 0), Count(1023, 0),
                   Count(2048, 0), Negate(Byte), Negate(KB),
                   Ladder(Len(units)) }

\* Decimal numerals strconv.ParseFloat reads.
Numerals ==
    { << "0" >>, << "1" >>, << "5" >>, << "1", "0" >>, << "1", "0", "0" >>,
      << "1", "0", "2", "4" >>, << "9", "9", "9", "9" >>,
      << "1", ".", "5" >>, << "0", ".", "5" >>, << ".", "5" >>, << "1", "." >>,
      << "2", ".", "7", "5" >>, << "0", ".", "0", "0", "1" >>,
      << "1", "0", "2", "4", ".", "5" >>,
      << "1", "0", "2", "3", ".", "9", "9" >>,
      << "1", "0", "2", "4", ".", "0", "0" >>,
      << "-", "1" >>, << "-", "1", ".", "5" >>, << "+", "2" >>,
      ToDec(Plus(Count(8, 5), 1).mag),
      ToDec(Count(4, 5).mag) \o << ".", "9" >>,
      << "1", "." >> \o [i \in 1..20 |-> "9"] }

\* Prefixes it does not read.
NotNumerals == { << >>, << "O", "n", "e" >>, << "1", ".", "2", ".", "3" >>,
                 << "-" >> }

\* Every spelling of the unit names.
Spellings ==
    { << b >> : b \in { "B", "b" } }
    \cup { << c, b >> : c \in { "K", "M", "G", "T", "P",
                                "k", "m", "g", "t", "p" },
                        b \in { "B", "b" } }

\* Endings that spell no unit.
NotUnits == { << "X", "B" >>, << "M", "A" >>, << "A" >>, << "K" >> }

Strings ==
    { << >> }
    \cup { p \o u : p \in Numerals, u \in Spellings \cup NotUnits }
    \cup { p \o u : p \in NotNumerals,
                    u \in { v \in Spellings \cup NotUnits : Len(v) = 2 } }

VARIABLES
    pc,     \* the caller: "idle" before a call, "done" holding its result
    op,     \* the function called last
    via,    \* the formatter whose output Parse was given, or "none"
    fs,     \* the receiver of a method call
    bu,     \* Format's unit argument
    s,      \* Parse's argument
    out,    \* the string String or Format returned
    val,    \* the number an integer conversion or Parse returned
    err     \* the error Parse returned

vars == << pc, op, via, fs, bu, s, out, val, err >>

Init ==
    /\ pc = "idle"
    /\ op = "none"
    /\ via = "none"
    /\ fs = Zero
    /\ bu = Byte
    /\ s = << >>
    /\ out = << >>
    /\ val = Zero
    /\ err = NoError

\* tval := size.String()
StringCall ==
    /\ pc = "idle"
    /\ \E x \in Counts :
         /\ fs' = x
         /\ out' = String(x)
    /\ op' = "String"
    /\ pc' = "done"
    /\ UNCHANGED << via, bu, s, val, err >>

\* tval := size.Format(unit)
FormatCall ==
    /\ pc = "idle"
    /\ \E x \in Counts, u \in UnitArgs :
         /\ fs' = x
         /\ bu' = u
         /\ out' = Format(x, u)
    /\ op' = "Format"
    /\ pc' = "done"
    /\ UNCHANGED << via, s, val, err >>

ByteIntCall ==
    /\ pc = "idle"
    /\ \E x \in Counts :
         /\ fs' = x
         /\ val' = ByteInt(x)
    /\ op' = "ByteInt"
    /\ pc' = "done"
    /\ UNCHANGED << via, bu, s, out, err >>

KBIntCall ==
    /\ pc = "idle"
    /\ \E x \in Counts :
         /\ fs' = x
         /\ val' = KBInt(x)
    /\ op' = "KBInt"
    /\ pc' = "done"
    /\ UNCHANGED << via, bu, s, out, err >>

MBIntCall ==
    /\ pc = "idle"
    /\ \E x \in Counts :
         /\ fs' = x
         /\ val' = MBInt(x)
    /\ op' = "MBInt"
    /\ pc' = "done"
    /\ UNCHANGED << via, bu, s, out, err >>

GBIntCall ==
    /\ pc = "idle"
    /\ \E x \in Counts :
         /\ fs' = x
         /\ val' = GBInt(x)
    /\ op' = "GBInt"
    /\ pc' = "done"
    /\ UNCHANGED << via, bu, s, out, err >>

TBIntCall ==
    /\ pc = "idle"
    /\ \E x \in Counts :
         /\ fs' = x
         /\ val' = TBInt(x)
    /\ op' = "TBInt"
    /\ pc' = "done"
    /\ UNCHANGED << via, bu, s, out, err >>

PBIntCall ==
    /\ pc = "idle"
    /\ \E x \in Counts :
         /\ fs' = x
         /\ val' = PBInt(x)
    /\ op' = "PBInt"
    /\ pc' = "done"
    /\ UNCHANGED << via, bu, s, out, err >>

\* size, err := Parse(sizeStr)
ParseCall ==
    /\ pc = "idle"
    /\ \E str \in Strings :
         /\ s' = str
         /\ \E r \in Parse(str) :
              /\ val' = r.val
              /\ err' = r.err
    /\ op' = "Parse"
    /\ pc' = "done"
    /\ UNCHANGED << via, fs, bu, out >>

\* Parse given the string a formatter has just returned.
ParseBack ==
    /\ pc = "done"
    /\ op \in { "String", "Format" }
    /\ s' = out
    /\ \E r \in Parse(out) :
         /\ val' = r.val
         /\ err' = r.err
    /\ op' = "Parse"
    /\ via' = op
    /\ UNCHANGED << pc, fs, bu, out >>

\* The caller drops the result and is ready for the next call.
Return ==
    /\ pc = "done"
    /\ pc' = "idle"
    /\ op' = "none"
    /\ via' = "none"
    /\ fs' = Zero
    /\ bu' = Byte
    /\ s' = << >>
    /\ out' = << >>
    /\ val' = Zero
    /\ err' = NoError

Next ==
    \/ StringCall
    \/ FormatCall
    \/ ByteIntCall
    \/ KBIntCall
    \/ MBIntCall
    \/ GBIntCall
    \/ TBIntCall
    \/ PBIntCall
    \/ ParseCall
    \/ ParseBack
    \/ Return

Spec == Init /\ [][Next]_vars

(***************************************************************************)
(* What the properties are stated with: the text a reader sees and exact   *)
(* arithmetic on it; nothing here passes through a float64.                *)
(***************************************************************************)

IsLetter(c) ==
    \E j \in 1..Len(LowerCase) : LowerCase[j] = c \/ UpperCase[j] = c

\* The unit letters a string ends in: its last two characters when both
\* are letters, else its last one.
Ending(str) ==
    LET n == Len(str)
    IN  IF n = 0 THEN << >>
        ELSE IF n >= 2 /\ IsLetter(str[n - 1]) /\ IsLetter(str[n])
        THEN SubSeq(str, n - 1, n)
        ELSE SubSeq(str, n, n)

\* What stands before them.
Prefix(str) == SubSeq(str, 1, Len(str) - Len(Ending(str)))

UnitNames == { units[i].unitName : i \in 1..Len(units) }

IsLadderUnit(u) == \E i \in 1..Len(units) : units[i].size = u

\* The step of the ladder a unit name or a unit stands on: 0 for B.
Rank(name) == (CHOOSE i \in 1..Len(units) : units[i].unitName = name) - 1
RankOf(u)  == (CHOOSE i \in 1..Len(units) : units[i].size = u) - 1

\* A decimal numeral: an optional sign, digits, at most one point.
IsNumeral(p) ==
    LET body == IF p # << >> /\ p[1] \in { "+", "-" } THEN Tail(p) ELSE p
    IN  /\ \E i \in 1..Len(body) : IsDigit(body[i])
        /\ \A i \in 1..Len(body) : IsDigit(body[i]) \/ body[i] = "."
        /\ Cardinality({ i \in 1..Len(body) : body[i] = "." }) <= 1

\* Its digits as one number, the count of them after the point, its sign.
NumDigits(p) == FromDec(SelectSeq(p, IsDigit))
NumScale(p)  ==
    IF \E i \in 1..Len(p) : p[i] = "."
    THEN Len(p) - (CHOOSE i \in 1..Len(p) : p[i] = ".")
    ELSE 0
NumNeg(p)    == p # << >> /\ p[1] = "-"

\* p * 1024^k with the fraction dropped.
ExactProduct(p, k) ==
    ByteSize(NumNeg(p), DivPow10(ShiftL(NumDigits(p), k), NumScale(p)).q)

\* q is x / 1024^k truncated toward zero.
IsTruncQuo(q, x, k) ==
    /\ q.neg = (x.neg /\ q.mag # << >>)
    /\ CmpM(ShiftL(q.mag, k), x.mag) <= 0
    /\ CmpM(x.mag, ShiftL(AddM(q.mag, << 1 >>), k)) < 0

\* x is a value of the 64-bit integer type.
InIntRangeM(x) ==
    LET c == CmpM(x.mag, Pow2M(IntBits))
    IN  c = -1 \/ (c = 0 /\ x.neg)

\* |a - b| of two magnitudes.
Dist(a, b) == IF CmpM(a, b) >= 0 THEN SubM(a, b) ELSE SubM(b, a)

\* With v = x / 1024^j: what v * 10^t has above its floor, in 1024^-j.
FloorFrac(x, j, t) ==
    With(LowM(MulPow10(x.mag, t), j), LAMBDA fr :
        IF x.neg /\ fr # << >> THEN SubM(One(j), fr) ELSE fr)

\* min(d, 2) for d the decimal places of v.
PlacesExact(x, j) ==
    IF FloorFrac(x, j, 0) = << >> THEN 0
    ELSE IF FloorFrac(x, j, 1) = << >> THEN 1
    ELSE 2

\* v * 10^t is no more than 1e-10 above a whole number.
NearWhole(x, j, t) ==
    With(FloorFrac(x, j, t), LAMBDA g :
        CmpM(MulPow10(g, epsilon), One(j)) <= 0)

\* min(d, 2) for d the multiplications by ten that bring v this near.
PlacesNear(x, j) ==
    IF NearWhole(x, j, 0) THEN 0
    ELSE IF NearWhole(x, j, 1) THEN 1
    ELSE 2

\* v rounded half away from zero to k places, written with k digits after
\* the point, none and no point for k = 0, and x's sign.
Numeral(x, j, k) ==
    With(MulPow10(x.mag, k), LAMBDA y :
      LET ip == ShiftR(y, j)
          up == j > 0 /\ CmpM(MulS(LowM(y, j), 2), One(j)) >= 0
      IN  With(PadZeros(ToDec(IF up THEN AddM(ip, << 1 >>) ELSE ip), k + 1),
            LAMBDA ds :
              (IF x.neg THEN << "-" >> ELSE << >>)
              \o SubSeq(ds, 1, Len(ds) - k)
              \o (IF k > 0
                  THEN << "." >> \o SubSeq(ds, Len(ds) - k + 1, Len(ds))
                  ELSE << >>)))

\* The digits after the point of a formatter's output.
OutDecimals ==
    LET num == Prefix(out)
    IN  IF \E i \in 1..Len(num) : num[i] = "."
        THEN Len(num) - (CHOOSE i \in 1..Len(num) : num[i] = ".")
        ELSE 0

Formatted == op \in { "String", "Format" }
Parsed    == op = "Parse"

(***************************************************************************)
(* Properties.                                                             *)
(***************************************************************************)

\* What Parse itself takes for a unit: B in either case, or one of K, M, G,
\* T, P in upper case before it.
Recognised(u) ==
    /\ ToUpper(u) \in UnitNames
    /\ Len(u) = 2 => u[1] \in { "K", "M", "G", "T", "P" }

\* C1: Parse is case-insensitive in the unit suffix: for a valid numeral p
\* and any upper/lower-case spelling of B, KB, MB, GB, TB or PB, Parse
\* succeeds and returns what it returns for p with the upper-case suffix.
C1_CaseInsensitive ==
    (Parsed /\ IsNumeral(Prefix(s)) /\ ToUpper(Ending(s)) \in UnitNames)
    => /\ err = NoError
       /\ \E r \in Parse(Prefix(s) \o ToUpper(Ending(s))) :
              r.err = NoError /\ r.val = val

\* "1kb" has been parsed, and refused as no number.
C1_Witness ==
    /\ Parsed
    /\ s = << "1", "k", "b" >>
    /\ err = SyntaxError

\* The first word of the invalid-unit error.
IsUnitError(e) == e # << >> /\ e[1] = UnitError(<< >>)[1]

\* C2: Parse reports the error kind of its input's defect: the empty string
\* gives the empty-input error; trailing unit letters that are no known
\* unit give the invalid-unit error; a known unit after a prefix that is no
\* numeral gives the malformed-number error.
C2_ErrorKinds ==
    Parsed =>
      IF s = << >> THEN err = EmptyError
      ELSE IF ToUpper(Ending(s)) \notin UnitNames THEN IsUnitError(err)
      ELSE IF ~IsNumeral(Prefix(s)) THEN err = SyntaxError
      ELSE TRUE

\* "1XB" has been parsed, and refused as no number.
C2_Witness ==
    /\ Parsed
    /\ s = << "1", "X", "B" >>
    /\ err = SyntaxError

IntOps == << "ByteInt", "KBInt", "MBInt", "GBInt", "TBInt", "PBInt" >>

\* C3: each integer conversion returns the count divided by its own unit's
\* threshold, truncated toward zero; PBInt divides by 1024^5.
C3_IntConversions ==
    \A i \in 1..Len(IntOps) : op = IntOps[i] => IsTruncQuo(val, fs, i - 1)

\* PBInt has returned 1024 for 1 PB.
C3_Witness ==
    /\ op = "PBInt"
    /\ fs = PB
    /\ val = Count(1024, 0)

\* C4 as stated: String renders every count x >= 1 KB with a unit U of the
\* ladder for which 1 <= x / U < 1024, and every x < 1 KB with Byte.
C4_UnitSelection ==
    op = "String" =>
      LET k == Rank(Ending(out))
      IN  IF ~fs.neg /\ CmpM(fs.mag, KB.mag) >= 0
          THEN /\ CmpM(fs.mag, Ladder(k).mag) >= 0
               /\ CmpM(fs.mag, Ladder(k + 1).mag) < 0
          ELSE k = 0

\* C4, amended: String renders x with Byte when x < 1 KB (negative counts
\* included), with PB when x >= 1024 PB, and otherwise with the unit U of
\* the ladder for which 1 <= x / U < 1024.
C4_UnitSelectionUpToPB ==
    op = "String" =>
      LET k == Rank(Ending(out))
      IN  IF fs.neg \/ CmpM(fs.mag, KB.mag) < 0 THEN k = 0
          ELSE IF CmpM(fs.mag, Ladder(Len(units)).mag) >= 0
          THEN k = Len(units) - 1
          ELSE /\ CmpM(fs.mag, Ladder(k).mag) >= 0
               /\ CmpM(fs.mag, Ladder(k + 1).mag) < 0

\* String has rendered a count of 1024 PB or more, in PB.
C4_Witness ==
    /\ op = "String"
    /\ ~fs.neg
    /\ CmpM(fs.mag, Ladder(Len(units)).mag) >= 0
    /\ Ending(out) = << "P", "B" >>

\* C5: String chooses its unit by the absolute value of the count: the
\* largest ladder unit whose threshold is <= |x|, Byte when |x| < 1 KB,
\* for negative counts too.
C5_AbsoluteValue ==
    op = "String" =>
      LET k == Rank(Ending(out))
      IN  /\ k = 0 \/ CmpM(fs.mag, Ladder(k).mag) >= 0
          /\ k = Len(units) - 1 \/ CmpM(fs.mag, Ladder(k + 1).mag) < 0

\* String has rendered -2048 as "-2048B".
C5_Witness ==
    /\ op = "String"
    /\ fs = Negate(Count(2, 1))
    /\ out = << "-", "2", "0", "4", "8", "B" >>

\* C6: Format is lenient about its unit: for a unit value that is zero or
\* no ladder threshold (negative values included) it returns exactly what
\* String returns, and for a ladder threshold the output carries that
\* unit's suffix whatever the count.
C6_FormatLenient ==
    op = "Format" =>
      IF IsLadderUnit(bu)
      THEN Ending(out) = units[RankOf(bu) + 1].unitName
      ELSE out = String(fs)

\* Format has been given the unit 0 and 1536 KB, and returned "1.5MB".
C6_Witness ==
    /\ op = "Format"
    /\ bu = Zero
    /\ fs = Count(1536, 1)
    /\ out = << "1", ".", "5", "M", "B" >>

\* A magnitude in decimal, "0" for zero.
Decimal(n) == IF n = << >> THEN << "0" >> ELSE ToDec(n)

\* Parse has been given what Format returned for n * U and the ladder
\* unit U, n >= 0.
RoundTrip ==
    /\ Parsed
    /\ via = "Format"
    /\ IsLadderUnit(bu)
    /\ ~fs.neg
    /\ LowM(fs.mag, RankOf(bu)) = << >>

\* Format printed the numeral n and U's suffix, and Parse returned n * U.
RoundTripExact ==
    /\ out = Decimal(ShiftR(fs.mag, RankOf(bu))) \o units[RankOf(bu) + 1].unitName
    /\ err = NoError
    /\ val = fs

\* C7 as stated: for every ladder unit U and every n >= 0 with n * U in
\* range, Format(n * U, U) is the numeral n with U's suffix and Parse of it
\* returns exactly n * U.
C7_RoundTrip == RoundTrip => RoundTripExact

\* C7, amended: the same for every n from 0 to 2^53 (the integers a float64
\* holds exactly) with n * U in range.
C7_RoundTripExactFloat ==
    (RoundTrip /\ CmpM(ShiftR(fs.mag, RankOf(bu)), Pow2M(MantBits)) <= 0)
    => RoundTripExact

\* "5B", Format's output for 5 bytes in Byte, has been parsed back to 5.
C7_Witness ==
    /\ RoundTrip
    /\ fs = Count(5, 0)
    /\ bu = Byte
    /\ s = << "5", "B" >>
    /\ val = fs

\* C8 as stated: the numeral String and Format print for the quotient v is
\* v rounded half away from zero to k places with exactly k digits after
\* the point, k = min(d, 2), d the number of decimal places of v.
C8_DecimalRule ==
    Formatted =>
      LET j == Rank(Ending(out))
      IN  Prefix(out) = Numeral(fs, j, PlacesExact(fs, j))

\* C8, amended: the output never has more than 2 digits after the point;
\* and for a count x with |x| * 100 < 2^53 the numeral is v rounded half
\* away from zero to k places with exactly k digits after the point and
\* the sign of x, k = min(d, 2), d the number of multiplications by ten
\* that bring v to at most 1e-10 above a whole number.
C8_DecimalRuleNear ==
    Formatted =>
      /\ OutDecimals <= 2
      /\ CmpM(MulS(fs.mag, 100), Pow2M(MantBits)) < 0
         => LET j == Rank(Ending(out))
            IN  Prefix(out) = Numeral(fs, j, PlacesNear(fs, j))

\* String has printed 3200 MB, 3.125 GB, as "3.13GB".
C8_Witness ==
    /\ op = "String"
    /\ fs = Count(3200, 2)
    /\ out = << "3", ".", "1", "3", "G", "B" >>

\* Parse has been given a decimal numeral and a unit it recognises.
NumeralAndUnit ==
    /\ Parsed
    /\ IsNumeral(Prefix(s))
    /\ Recognised(Ending(s))

\* p * T, truncated, is a value of the integer type.
ProductInRange ==
    InIntRangeM(ExactProduct(Prefix(s), Rank(ToUpper(Ending(s)))))

\* C9 as stated, where the integer type holds the product: for a valid
\* decimal numeral p and a recognised unit with threshold T, Parse succeeds
\* and returns p * T truncated toward zero, never rounded to nearest.
C9_ParseTruncates ==
    (NumeralAndUnit /\ ProductInRange)
    => /\ err = NoError
       /\ val = ExactProduct(Prefix(s), Rank(ToUpper(Ending(s))))

\* C9, amended: the same for the numerals whose digits, read as one whole
\* number D, have D * T < 2^53.
C9_ParseTruncatesExactFloat ==
    (/\ NumeralAndUnit
     /\ CmpM(ShiftL(NumDigits(Prefix(s)), Rank(ToUpper(Ending(s)))),
             Pow2M(MantBits)) < 0)
    => /\ err = NoError
       /\ val = ExactProduct(Prefix(s), Rank(ToUpper(Ending(s))))

\* "1024.5B" has been parsed to 1024.
C9_Witness ==
    /\ Parsed
    /\ s = << "1", "0", "2", "4", ".", "5", "B" >>
    /\ err = NoError
    /\ val = Count(1024, 0)

\* C10: Parse accepts what String produces for a count x, 0 <= x < 2^53,
\* and returns a value within 1% of the threshold of the unit String chose,
\* exactly x when that unit is Byte.
C10_ParseOfString ==
    (Parsed /\ via = "String" /\ ~fs.neg
       /\ CmpM(fs.mag, Pow2M(MantBits)) < 0)
    => /\ err = NoError
       /\ ~val.neg
       /\ LET k == Rank(Ending(out))
          IN  /\ CmpM(MulS(Dist(val.mag, fs.mag), 100), Ladder(k).mag) <= 0
              /\ k = 0 => val = fs

\* "1024.00KB", String's output for one byte below 1 MB, has been parsed
\* back to 1 MB.
C10_Witness ==
    /\ Parsed
    /\ via = "String"
    /\ fs = Less(MB, 1)
    /\ s = << "1", "0", "2", "4", ".", "0", "0", "K", "B" >>
    /\ val = MB

==========================================================================
